---- MODULE Spec2Model ----
(***************************************************************************)
(* Discrete-time stochastic SIR simulator of                               *)
(* src/epi_forecast_stat_mech/sir_sim.py.                                  *)
(*                                                                         *)
(* Each Python function is a frame (a record of its arguments and locals)  *)
(* and pc is the control location.  Random draws are nondeterministic      *)
(* choices over the support of the distribution.  Real numbers are exact   *)
(* rationals <<numerator, denominator>> with a positive denominator.       *)
(***************************************************************************)
EXTENDS Integers, Sequences, FiniteSets, TLC

VARIABLES pc, sir, obs, sims

vars == <<pc, sir, obs, sims>>

(***************************************************************************)
(* Bounds of the exploration.                                              *)
(***************************************************************************)
\* the simulator is entered with the populations 1..MaxPop, and a population
\* below the fade-out threshold is explored with curves of at most MaxLen
\* entries
MaxPop == 3
MaxLen == 6
\* the batch is explored with at most MaxSimulations replicates of at most
\* MaxEpidemics epidemics
MaxSimulations == 2
MaxEpidemics == 2

(***************************************************************************)
(* Program constants.                                                      *)
(***************************************************************************)
\* while total_infections < 10 and count<5000
MinTotal == 10
MaxAttempts == 5000
\* current_time = np.max([..., 2])
MinWindow == 2

\* the one population at the threshold, the smallest that can pass it, is
\* explored with the shortest curves that can: the seed, one wave of
\* infections and the final 0
OutbreakLen == MinWindow + 1

NoFrame == [none |-> TRUE]

(***************************************************************************)
(* Arithmetic helpers: np.sum, np.cumsum, comparisons of rationals.        *)
(***************************************************************************)
RECURSIVE SumTo(_, _)
SumTo(s, n) == IF n = 0 THEN 0 ELSE SumTo(s, n - 1) + s[n]

\* np.sum(s)
Sum(s) == SumTo(s, Len(s))

\* np.cumsum(s): entry i is s[1] + ... + s[i]
CumSum(s) == [i \in 1..Len(s) |-> Sum(SubSeq(s, 1, i))]

\* s[:n] for n >= 0
Prefix(s, n) == SubSeq(s, 1, IF n < Len(s) THEN n ELSE Len(s))

\* s[:-1]
DropLast(s) == SubSeq(s, 1, Len(s) - 1)

SetMax(S) == CHOOSE m \in S : \A x \in S : x <= m

\* n < r for an integer n and a rational r
IntLessRat(n, r) == n * r[2] < r[1]

\* n * r for an integer n and a rational r
IntTimesRat(n, r) == <<n * r[1], r[2]>>

RatPositive(r) == r[1] > 0 /\ r[2] > 0

\* n / r for an integer n and a rational r
IntOverRat(n, r) == <<n * r[2], r[1]>>

\* a + b, kept over the common denominator when there is one
RatAdd(a, b) ==
  IF a[2] = b[2] THEN <<a[1] + b[1], a[2]>>
  ELSE <<a[1] * b[2] + b[1] * a[2], a[2] * b[2]>>

\* k * r for a weight k that is 0 or 1
RatScale(k, r) == <<k * r[1], r[2]>>

(***************************************************************************)
(* generate_ground_truth_SIR_curve(pop_size, beta, gamma)                  *)
(***************************************************************************)
PopSizes == (1..MaxPop) \cup {MinTotal}

\* longest curve explored for a population
Horizon(pop_size) == IF pop_size < MinTotal THEN MaxLen ELSE OutbreakLen

\* A growth rate is kept in the form the beta generators compute it,
\* shift + scale * exp(exponent), the three parts being rationals.
BetaOf(shift, scale, exponent) ==
  [shift |-> shift, scale |-> scale, exponent |-> exponent]

BetaPositive(beta) == beta.shift[1] >= 0 /\ RatPositive(beta.scale)

\* the rates used when a function other than the batch is entered directly:
\* beta = 0.5 and the default constant_gamma = 0.33
Betas == {BetaOf(<<0, 1>>, <<1, 2>>, <<0, 1>>)}
Gammas == {<<33, 100>>}

\* prob_infected = 1 - exp(-beta * num_infected / pop_size) is 0 when the
\* exponent is 0 and strictly between 0 and 1 otherwise
ProbInfectedPositive(f) == BetaPositive(f.beta) /\ f.num_infected > 0

\* prob_recover = 1 - exp(-gamma)
ProbRecoverPositive(f) == RatPositive(f.gamma)

\* stats.binom.rvs(n, p): every count 0..n when 0 < p < 1, only 0 when p = 0
BinomRvs(n, positive) == IF positive THEN 0..n ELSE {0}

\* lines 101-105 with the list started from num_recovered instead of
\* num_infected
SirEntryRecordsRecovered(pop_size, beta, gamma) ==
  [pop_size |-> pop_size, beta |-> beta, gamma |-> gamma,
   num_infected |-> 1,
   num_recovered |-> 0,
   num_susceptible |-> pop_size - 1 - 0,
   list_of_new_infections |-> <<0>>]

\* lines 101-105
SirEntry(pop_size, beta, gamma) ==
  [pop_size |-> pop_size, beta |-> beta, gamma |-> gamma,
   num_infected |-> 1,
   num_recovered |-> 0,
   num_susceptible |-> pop_size - 1 - 0,
   list_of_new_infections |-> <<1>>]

\* the loop test turned into num_infected >= 0
SirLoopTestNonNegative(f) == f.num_infected >= 0

\* loop test, line 108
SirLoopTest(f) == f.num_infected > 0

\* the loop body with the update of num_susceptible (line 132) left out
SirBodyKeepSusceptible(f, num_new_infections, num_new_recoveries) ==
  [f EXCEPT
     !.list_of_new_infections = Append(@, num_new_infections),
     !.num_infected = @ + num_new_infections - num_new_recoveries,
     !.num_recovered = @ + num_new_recoveries]

\* one iteration of the loop body, lines 111-132, for the two draws
SirBody(f, num_new_infections, num_new_recoveries) ==
  [f EXCEPT
     !.list_of_new_infections = Append(@, num_new_infections),
     !.num_infected = @ + num_new_infections - num_new_recoveries,
     !.num_recovered = @ + num_new_recoveries,
     !.num_susceptible = @ - num_new_infections]

\* the frames one iteration can lead to
SirBodyOutcomes(f) ==
  {SirBody(f, ni, nr) :
     ni \in BinomRvs(f.num_susceptible, ProbInfectedPositive(f)),
     nr \in BinomRvs(f.num_infected, ProbRecoverPositive(f))}

\* the list has room for one more entry
SirRoom(f) == Len(f.list_of_new_infections) < Horizon(f.pop_size)

\* the whole call: every list the loop can return within the horizon
RECURSIVE SirRun(_)
SirRun(f) ==
  IF SirLoopTest(f)
  THEN IF SirRoom(f) THEN UNION {SirRun(g) : g \in SirBodyOutcomes(f)} ELSE {}
  ELSE {f.list_of_new_infections}

SirStep ==
  /\ pc = "sir_loop"
  /\ SirLoopTest(sir)
  /\ SirRoom(sir)
  /\ sir' \in SirBodyOutcomes(sir)
  /\ UNCHANGED <<pc, obs, sims>>

\* line 134
SirReturn ==
  /\ pc = "sir_loop"
  /\ ~SirLoopTest(sir)
  /\ pc' = "sir_done"
  /\ UNCHANGED <<sir, obs, sims>>

InitSIR ==
  /\ pc = "sir_loop"
  /\ \E p \in PopSizes, b \in Betas, g \in Gammas : sir = SirEntry(p, b, g)
  /\ obs = NoFrame
  /\ sims = NoFrame

NextSIR == SirStep \/ SirReturn

SpecSIR == InitSIR /\ [][NextSIR]_vars

(***************************************************************************)
(* The simulator without a bound on the number of iterations: past the     *)
(* horizon the counters go on exactly as in the code and only the entry    *)
(* appended to the list is no longer recorded.                             *)
(***************************************************************************)
SirStepBeyondHorizon ==
  /\ pc = "sir_loop"
  /\ SirLoopTest(sir)
  /\ ~SirRoom(sir)
  /\ \E g \in SirBodyOutcomes(sir) :
       sir' = [g EXCEPT !.list_of_new_infections = sir.list_of_new_infections]
  /\ UNCHANGED <<pc, obs, sims>>

NextSIRFair == SirStep \/ SirStepBeyondHorizon \/ SirReturn

\* an iteration whose recovery draw (line 123) is at least 1
SirRecoverSome ==
  /\ SirStep \/ SirStepBeyondHorizon
  /\ sir'.num_recovered > sir.num_recovered

\* the interpreter returns once the loop test fails, and a recovery draw of at
\* least one, which has positive probability whenever somebody is infected, is
\* not avoided forever.  An iteration past the horizon in which both draws
\* are 0 leaves the recorded state unchanged, so a run of such iterations is a
\* run of stuttering steps: nothing but the fairness of the recovery draw
\* ends it.
SpecSIRFair ==
  /\ InitSIR
  /\ [][NextSIRFair]_vars
  /\ WF_vars(SirReturn)
  /\ WF_vars(SirRecoverSome)

(***************************************************************************)
(* Claims about generate_ground_truth_SIR_curve.                           *)
(***************************************************************************)
InSir == pc \in {"sir_loop", "sir_done"}

\* C1: susceptible + infected + recovered equals pop_size initially and
\* after every iteration of the loop, whatever the two binomial draws are.
C1_PopulationConserved ==
  InSir =>
    sir.num_susceptible + sir.num_infected + sir.num_recovered = sir.pop_size

\* an iteration with new infections and new recoveries has run
C1_Witness ==
  /\ InSir
  /\ Len(sir.list_of_new_infections) >= 3
  /\ sir.list_of_new_infections[2] > 0
  /\ sir.num_recovered > 0
  /\ sir.num_infected > 0

\* C2: under fairness of the recovery draw every execution of the simulator
\* reaches num_infected = 0 and returns; no cap on the iterations is needed.
C2_Terminates == <>(pc = "sir_done" /\ sir.num_infected = 0)

\* the call has returned after more iterations than the horizon records
C2_Witness ==
  /\ pc = "sir_done"
  /\ sir.num_recovered = sir.pop_size
  /\ sir.pop_size > 1

(***************************************************************************)
(* The three beta generators, lines 259-316.  A matrix is kept with its    *)
(* shape, as numpy keeps it, so that a matrix without rows still has its   *)
(* number of columns.                                                      *)
(***************************************************************************)
\* the draws explored for np.random.uniform(0.0, 1.0), for
\* np.random.uniform(-1.0, 1.0) and for np.random.binomial(1, 0.5)
UnitDraws == {<<1, 4>>, <<3, 4>>}
SymmetricDraws == {<<-2, 4>>, <<2, 4>>}
BernoulliDraws == {0, 1}

\* every array of the shape (rows, cols) with entries drawn from draws
RandomMatrix(rows, cols, draws) ==
  {[shape |-> <<rows, cols>>, rows |-> m] :
     m \in [1..rows -> [1..cols -> draws]]}

\* v[:, k] for a 0-based k
Column(v, k) == [r \in 1..v.shape[1] |-> v.rows[r][k + 1]]

\* alpha[0]*x[0] + ... for two vectors of the same length
RECURSIVE DotTo(_, _, _)
DotTo(alpha, x, n) ==
  IF n = 0 THEN <<0, 1>>
  ELSE IF n = 1 THEN RatScale(alpha[1], x[1])
  ELSE RatAdd(DotTo(alpha, x, n - 1), RatScale(alpha[n], x[n]))

\* np.matmul(alpha, v): one dot product per column
MatMul(alpha, v) ==
  [c \in 1..v.shape[2] |-> DotTo(alpha, Column(v, c - 1), Len(alpha))]

\* np.ones(n) and np.zeros(n)
Ones(n) == [i \in 1..n |-> 1]
Zeros(n) == [i \in 1..n |-> 0]

\* lines 270-274
GenerateBetasFromSingleRandomCovariate(num_epidemics) ==
  {LET alpha == Ones(1)
       e == MatMul(alpha, v)
   IN [beta |-> [c \in 1..Len(e) |-> BetaOf(<<0, 1>>, <<4, 10>>, e[c])],
       v |-> v,
       alpha |-> alpha] :
     v \in RandomMatrix(1, num_epidemics, UnitDraws)}

\* lines 286-291; exp(log(1.5) + log(2.0) * e) is 1.5 * 2^e for e in {0, 1}
GenerateBetasEffectMod(num_epidemics) ==
  {LET hd == v.rows[1]
       ws == v.rows[2]
   IN [beta |-> [c \in 1..num_epidemics |->
                   IF hd[c] = 1 /\ ws[c] = 0
                   THEN BetaOf(<<0, 1>>, <<3, 1>>, <<0, 1>>)
                   ELSE BetaOf(<<0, 1>>, <<3, 2>>, <<0, 1>>)],
       v |-> v,
       alpha |-> <<>>] :
     v \in RandomMatrix(2, num_epidemics, BernoulliDraws)}

\* lines 306-316 without the weights of the covariates that do not affect
\* beta (lines 310-311)
GenerateBetasManyCov2OnlyPred(num_epidemics, num_pred, num_not_pred) ==
  {LET alpha == Ones(num_pred)
       e == MatMul(alpha, v)
   IN [beta |-> [c \in 1..Len(e) |-> BetaOf(<<1, 1>>, <<1, 1>>, e[c])],
       v |-> v,
       alpha |-> alpha] :
     v \in RandomMatrix(num_pred + num_not_pred, num_epidemics, SymmetricDraws)}

\* lines 306-316
GenerateBetasManyCov2(num_epidemics, num_pred, num_not_pred) ==
  {LET alpha == Ones(num_pred) \o Zeros(num_not_pred)
       e == MatMul(alpha, v)
   IN [beta |-> [c \in 1..Len(e) |-> BetaOf(<<1, 1>>, <<1, 1>>, e[c])],
       v |-> v,
       alpha |-> alpha] :
     v \in RandomMatrix(num_pred + num_not_pred, num_epidemics, SymmetricDraws)}

\* gen_beta_fn(*beta_gen_parameters), line 206
GenBetaFn(gen_beta_fn, beta_gen_parameters) ==
  CASE gen_beta_fn = "generate_betas_from_single_random_covariate" ->
         GenerateBetasFromSingleRandomCovariate(beta_gen_parameters[1])
    [] gen_beta_fn = "generate_betas_effect_mod" ->
         GenerateBetasEffectMod(beta_gen_parameters[1])
    [] gen_beta_fn = "generate_betas_many_cov2" ->
         GenerateBetasManyCov2(beta_gen_parameters[1], beta_gen_parameters[2],
                               beta_gen_parameters[3])

\* the generators with the parameter tuples they are explored with
CovariateCounts == {0, 1}

BetaGenerators ==
  {<<"generate_betas_from_single_random_covariate", <<n>>>> :
     n \in 1..MaxEpidemics}
  \cup {<<"generate_betas_effect_mod", <<n>>>> : n \in 1..MaxEpidemics}
  \cup {<<"generate_betas_many_cov2", <<n, p, q>>>> :
          n \in 1..MaxEpidemics, p \in CovariateCounts, q \in CovariateCounts}

\* every growth rate a generator can return
GeneratedBetas ==
  UNION {UNION {{out.beta[c] : c \in 1..Len(out.beta)} :
                  out \in GenBetaFn(g[1], g[2])} : g \in BetaGenerators}

(***************************************************************************)
(* generate_observed_SIR_curves(percent_infected, pop_size, beta, gamma)   *)
(***************************************************************************)
\* percent_infected values explored: 0.05, the low end of the range drawn
\* at line 210, and 0.9
Percents == {<<1, 20>>, <<9, 10>>}

\* populations the rejection loop is explored with: one that can never pass
\* the threshold and the smallest one that can
ObsPopSizes == {2, MinTotal}

AllBetas == Betas \cup GeneratedBetas

\* generate_ground_truth_SIR_curve as one call: the triples of arguments,
\* each with the set of lists the call can return
SirCurves ==
  {<<a, SirRun(SirEntry(a[1], a[2], a[3]))>> :
     a \in ObsPopSizes \X AllBetas \X Gammas}

SirCall(pop_size, beta, gamma) ==
  (CHOOSE e \in SirCurves : e[1] = <<pop_size, beta, gamma>>)[2]

\* the locals of the rejection loop, lines 157-159; ground_truth_infections
\* is bound by the first call, <<>> stands for the unbound name
ObsLocals ==
  [total_infections |-> 0,
   count |-> 0,
   ground_truth_infections |-> <<>>]

\* the frame on entry: the arguments and the locals
ObsEntry(percent_infected, pop_size, beta, gamma) ==
  [percent_infected |-> percent_infected, pop_size |-> pop_size,
   beta |-> beta, gamma |-> gamma] @@ ObsLocals

\* the loop test without the test of total_infections
ObsLoopTestCountOnly(f) == f.count < MaxAttempts

\* loop test, line 161
ObsLoopTest(f) == f.total_infections < MinTotal /\ f.count < MaxAttempts

\* the loop body with line 163 adding to total_infections instead of
\* assigning it
ObsBodyAccumulate(f, curve) ==
  [f EXCEPT !.ground_truth_infections = curve,
            !.total_infections = @ + Sum(curve),
            !.count = @ + 1]

\* loop body, lines 162-164, for the curve the simulator returned
ObsBody(f, curve) ==
  [f EXCEPT !.ground_truth_infections = curve,
            !.total_infections = Sum(curve),
            !.count = @ + 1]

\* line 167
ObsTargetSize(f) == IntTimesRat(f.total_infections, f.percent_infected)

\* np.where(cumulative_infections < target_size): 0-based indices
ObsWhere(cumulative_infections, target_size) ==
  {i \in 0..(Len(cumulative_infections) - 1) :
     IntLessRat(cumulative_infections[i + 1], target_size)}

\* line 172 without the floor
ObsCurrentTimeNoFloor(where) == SetMax(where)

\* line 172, for a non-empty result of np.where
ObsCurrentTime(where) ==
  IF SetMax(where) > MinWindow THEN SetMax(where) ELSE MinWindow

\* lines 167-171
ObsTarget(f) ==
  f @@ [target_size |-> ObsTargetSize(f),
        cumulative_infections |-> CumSum(f.ground_truth_infections)]

\* lines 172-176
ObsSlice(f) ==
  LET current_time ==
        ObsCurrentTime(ObsWhere(f.cumulative_infections, f.target_size))
  IN f @@ [current_time |-> current_time,
           observed_infections |->
             Prefix(f.ground_truth_infections, current_time)]

\* np.max of an empty array raises ValueError
ObsRaises(f) == ObsWhere(f.cumulative_infections, f.target_size) = {}

ObsAttempt ==
  /\ pc = "obs_loop"
  /\ ObsLoopTest(obs)
  /\ \E curve \in SirCall(obs.pop_size, obs.beta, obs.gamma) :
       obs' = ObsBody(obs, curve)
  /\ UNCHANGED <<pc, sir, sims>>

\* lines 167-178 when np.where finds an index
ObsWindowReturn ==
  /\ pc = "obs_loop"
  /\ ~ObsLoopTest(obs)
  /\ ~ObsRaises(ObsTarget(obs))
  /\ obs' = ObsSlice(ObsTarget(obs))
  /\ pc' = "obs_done"
  /\ UNCHANGED <<sir, sims>>

\* lines 167-172 when np.where finds none
ObsWindowRaise ==
  /\ pc = "obs_loop"
  /\ ~ObsLoopTest(obs)
  /\ ObsRaises(ObsTarget(obs))
  /\ obs' = ObsTarget(obs)
  /\ pc' = "obs_raised"
  /\ UNCHANGED <<sir, sims>>

InitObserved ==
  /\ pc = "obs_loop"
  /\ \E percent \in Percents, p \in ObsPopSizes, b \in Betas, g \in Gammas :
       obs = ObsEntry(percent, p, b, g)
  /\ sir = NoFrame
  /\ sims = NoFrame

NextObserved == ObsAttempt \/ ObsWindowReturn \/ ObsWindowRaise

SpecObserved == InitObserved /\ [][NextObserved]_vars

(***************************************************************************)
(* generate_observed_SIR_curves as one call, for its caller.  The count of *)
(* the loop is a local that the call does not return.                      *)
(***************************************************************************)
\* n consecutive evaluations of the loop test (line 161), each followed by
\* the loop body for the frames that pass it, on a set of frames standing at
\* the test, the simulator returning one of curves: the frames that left the
\* loop and the frames still at the test.  The n evaluations are run as the
\* first half and then the second half.
RECURSIVE ObsIterate(_, _, _)
ObsIterate(n, heads, curves) ==
  IF n = 0 \/ heads = {} THEN [exited |-> {}, heads |-> heads]
  ELSE IF n = 1 THEN
    LET going == {f \in heads : ObsLoopTest(f)}
    IN [exited |-> heads \ going,
        heads |-> {ObsBody(f, curve) : f \in going, curve \in curves}]
  ELSE
    LET first == ObsIterate(n \div 2, heads, curves)
        rest == ObsIterate(n - (n \div 2), first.heads, curves)
    IN [exited |-> first.exited \cup rest.exited, heads |-> rest.heads]

\* the curves the loop can be left with, the simulator returning one of
\* curves: the test is evaluated at most MaxAttempts + 1 times
ObsLoopExits(curves) ==
  {f.ground_truth_infections :
     f \in ObsIterate(MaxAttempts + 1, {ObsLocals}, curves).exited}

\* lines 167-178 for the curve the loop was left with: the returned pair, or
\* the exception
ObsFinish(percent_infected, curve) ==
  LET f == ObsTarget([percent_infected |-> percent_infected,
                      ground_truth_infections |-> curve,
                      total_infections |-> Sum(curve)])
  IN IF ObsRaises(f)
     THEN [raised |-> "ValueError"]
     ELSE [observed_infections |-> ObsSlice(f).observed_infections,
           ground_truth_infections |-> curve]

\* percent_infected values explored for np.random.uniform(0.05, 1.0):
\* 0.05 and 0.125
DrawnPercents == {<<1, 20>>, <<1, 8>>}

\* the populations the batch is explored with (constant_pop_size)
BatchPopSizes == {MinTotal}

\* the sets of curves the simulator can return to the calls of the batch,
\* each with the curves the rejection loop can be left with
ObsExitCurves ==
  {<<curves, ObsLoopExits(curves)>> :
     curves \in {SirCall(a[1], a[2], a[3]) :
                   a \in BatchPopSizes \X GeneratedBetas \X Gammas}}

\* generate_observed_SIR_curves as one call: what it can come back with
ObsCall(percent_infected, pop_size, beta, gamma) ==
  LET curves == SirCall(pop_size, beta, gamma)
  IN {ObsFinish(percent_infected, curve) :
        curve \in (CHOOSE e \in ObsExitCurves : e[1] = curves)[2]}

(***************************************************************************)
(* Claims about generate_observed_SIR_curves.                              *)
(***************************************************************************)
ObsExited == pc \in {"obs_done", "obs_raised"}

IsPrefixOf(s, t) ==
  /\ Len(s) <= Len(t)
  /\ \A i \in 1..Len(s) : s[i] = t[i]

\* C3: for every returned pair, observed is a prefix of ground_truth and
\* 2 <= len(observed) <= len(ground_truth).
C3_ObservedIsPrefix ==
  pc = "obs_done" =>
    /\ IsPrefixOf(obs.observed_infections, obs.ground_truth_infections)
    /\ MinWindow <= Len(obs.observed_infections)
    /\ Len(obs.observed_infections) <= Len(obs.ground_truth_infections)

\* a pair was returned whose window is longer than the floor and shorter than
\* the whole curve
C3_Witness ==
  /\ pc = "obs_done"
  /\ Len(obs.observed_infections) > MinWindow
  /\ Len(obs.observed_infections) < Len(obs.ground_truth_infections)

C5_WitnessExhausted ==
  /\ pc = "obs_done"
  /\ obs.count = MaxAttempts
  /\ obs.total_infections < MinTotal

\* C6: when the window is longer than the floor, sum(observed) < target_size
\* and the prefix one timestep longer has a sum >= target_size.
C6_WindowStopsAtTarget ==
  pc = "obs_done" /\ Len(obs.observed_infections) > MinWindow =>
    /\ IntLessRat(Sum(obs.observed_infections), obs.target_size)
    /\ ~IntLessRat(Sum(Prefix(obs.ground_truth_infections,
                               Len(obs.observed_infections) + 1)),
                    obs.target_size)

\* C7: generate_observed_SIR_curves raises nothing: when no timestep has a
\* cumulative count below target_size it sets current_time to 2 and returns
\* the first two timesteps.
C7_TotalOverSmallTargets ==
  ObsExited /\ ObsRaises(obs) =>
    /\ pc = "obs_done"
    /\ obs.current_time = MinWindow
    /\ obs.observed_infections = Prefix(obs.ground_truth_infections, MinWindow)

(***************************************************************************)
(* generate_SIR_simulations(gen_beta_fn, beta_gen_parameters,              *)
(*   num_simulations, num_epidemics, constant_gamma, constant_pop_size,    *)
(*   const_estimate_of_total)                                              *)
(***************************************************************************)
\* the default const_estimate_of_total = 0.5
EstimatesOfTotal == {<<1, 2>>}

\* the namedtuple meta_data, lines 16-19
MetaData(num_epidemics, epidemic_id, frac_estimate_of_total, percent_infected, pop_size, beta, gamma) ==
  [num_epidemics |-> num_epidemics,
   epidemic_id |-> epidemic_id,
   frac_estimate_of_total |-> frac_estimate_of_total,
   percent_infected |-> percent_infected,
   pop_size |-> pop_size,
   beta |-> beta,
   gamma |-> gamma]

\* np.arange(n)
Arange(n) == [i \in 1..n |-> i - 1]

\* np.cumsum(series), the line commented out at 233-234
SameDayCumSum(series) == CumSum(series)

\* np.cumsum(np.concatenate(([0.], series)))[:-1]
PreviousDayCumSum(series) == DropLast(CumSum(<<0>> \o series))

\* lines 201-202
SimsEntry(gen_beta_fn, beta_gen_parameters, num_simulations, num_epidemics, constant_gamma, constant_pop_size, const_estimate_of_total) ==
  [gen_beta_fn |-> gen_beta_fn,
   beta_gen_parameters |-> beta_gen_parameters,
   num_simulations |-> num_simulations,
   num_epidemics |-> num_epidemics,
   constant_gamma |-> constant_gamma,
   constant_pop_size |-> constant_pop_size,
   const_estimate_of_total |-> const_estimate_of_total,
   list_of_meta_data |-> <<>>,
   list_of_disease_trajectory |-> <<>>]

\* lines 224-248 with v[:, 0] in the place of v[:, k]
DiseaseTrajectoryFirstColumn(f, observed_infections, ground_truth_infections) ==
  [unique_id |-> f.unique_id,
   simulation_number |-> f.j,
   epidemic_number |-> f.k,
   num_new_infections_over_time |-> observed_infections,
   estimated_infections |->
     IntOverRat(Sum(observed_infections),
                f.list_of_meta_data[f.k + 1].frac_estimate_of_total),
   ground_truth_infections_over_time |-> ground_truth_infections,
   total_infections |-> Sum(ground_truth_infections),
   v |-> Column(f.v, 0),
   alpha |-> f.alpha,
   metadata |-> f.list_of_meta_data[f.k + 1],
   t |-> Arange(Len(observed_infections)),
   ground_truth_t |-> Arange(Len(ground_truth_infections)),
   cumulative_infections_over_time |-> PreviousDayCumSum(observed_infections),
   ground_truth_cumulative_infections_over_time |->
     PreviousDayCumSum(ground_truth_infections)]

\* lines 224-248: the namedtuple disease_trajectory built from the pair the
\* call at line 223 returned
DiseaseTrajectory(f, observed_infections, ground_truth_infections) ==
  [unique_id |-> f.unique_id,
   simulation_number |-> f.j,
   epidemic_number |-> f.k,
   num_new_infections_over_time |-> observed_infections,
   estimated_infections |->
     IntOverRat(Sum(observed_infections),
                f.list_of_meta_data[f.k + 1].frac_estimate_of_total),
   ground_truth_infections_over_time |-> ground_truth_infections,
   total_infections |-> Sum(ground_truth_infections),
   v |-> Column(f.v, f.k),
   alpha |-> f.alpha,
   metadata |-> f.list_of_meta_data[f.k + 1],
   t |-> Arange(Len(observed_infections)),
   ground_truth_t |-> Arange(Len(ground_truth_infections)),
   cumulative_infections_over_time |-> PreviousDayCumSum(observed_infections),
   ground_truth_cumulative_infections_over_time |->
     PreviousDayCumSum(ground_truth_infections)]

\* lines 249-250 and the step of the two for loops, lines 221-222, with
\* unique_id restarted for each replicate
SimsAppendRestartId(f, dt) ==
  [f EXCEPT
     !.list_of_disease_trajectory = Append(@, dt),
     !.unique_id = IF f.k + 1 < f.num_epidemics THEN @ + 1 ELSE 0,
     !.k = IF f.k + 1 < f.num_epidemics THEN @ + 1 ELSE 0,
     !.j = IF f.k + 1 < f.num_epidemics THEN @ ELSE @ + 1]

\* lines 249-250 and the step of the two for loops, lines 221-222
SimsAppend(f, dt) ==
  [f EXCEPT
     !.list_of_disease_trajectory = Append(@, dt),
     !.unique_id = @ + 1,
     !.k = IF f.k + 1 < f.num_epidemics THEN @ + 1 ELSE 0,
     !.j = IF f.k + 1 < f.num_epidemics THEN @ ELSE @ + 1]

\* the call at line 223: generate_observed_SIR_curves(*list_of_meta_data[k][3:])
SimsCall(f) ==
  LET md == f.list_of_meta_data[f.k + 1]
  IN ObsCall(md.percent_infected, md.pop_size, md.beta, md.gamma)

\* line 206
SimsGenerateBetas ==
  /\ pc = "sims_gen"
  /\ \E out \in GenBetaFn(sims.gen_beta_fn, sims.beta_gen_parameters) :
       sims' = sims @@ [beta |-> out.beta, v |-> out.v, alpha |-> out.alpha]
  /\ pc' = "sims_percent"
  /\ UNCHANGED <<sir, obs>>

\* line 210, and the start of the loop at line 214
SimsDrawPercent ==
  /\ pc = "sims_percent"
  /\ \E percent_infected \in [1..sims.num_epidemics -> DrawnPercents] :
       sims' = sims @@ [percent_infected |-> percent_infected, i |-> 0]
  /\ pc' = "sims_meta"
  /\ UNCHANGED <<sir, obs>>

\* one iteration of the loop at lines 214-218
SimsMetaData ==
  /\ pc = "sims_meta"
  /\ sims.i < sims.num_epidemics
  /\ sims.i < Len(sims.beta)
  /\ sims' = [sims EXCEPT
       !.list_of_meta_data =
         Append(@, MetaData(sims.num_epidemics, sims.i,
                            sims.const_estimate_of_total,
                            sims.percent_infected[sims.i + 1],
                            sims.constant_pop_size,
                            sims.beta[sims.i + 1],
                            sims.constant_gamma)),
       !.i = @ + 1]
  /\ UNCHANGED <<pc, sir, obs>>

\* beta[i] at line 216 past the end of beta
SimsMetaDataRaise ==
  /\ pc = "sims_meta"
  /\ sims.i < sims.num_epidemics
  /\ sims.i >= Len(sims.beta)
  /\ pc' = "sims_index_error"
  /\ UNCHANGED <<sims, sir, obs>>

\* the end of the loop at line 214, and line 220 with the start of the loops
\* at lines 221-222
SimsMetaDone ==
  /\ pc = "sims_meta"
  /\ sims.i = sims.num_epidemics
  /\ sims' = sims @@ [unique_id |-> 0, j |-> 0, k |-> 0]
  /\ pc' = "sims_loop"
  /\ UNCHANGED <<sir, obs>>

\* one iteration of the inner loop, lines 223-250
SimsTrajectory ==
  /\ pc = "sims_loop"
  /\ sims.j < sims.num_simulations
  /\ \E out \in SimsCall(sims) :
       /\ "raised" \notin DOMAIN out
       /\ sims.k < sims.v.shape[2]
       /\ sims' = SimsAppend(sims,
            DiseaseTrajectory(sims, out.observed_infections,
                              out.ground_truth_infections))
  /\ UNCHANGED <<pc, sir, obs>>

\* the call at line 223 raises
SimsTrajectoryRaise ==
  /\ pc = "sims_loop"
  /\ sims.j < sims.num_simulations
  /\ \E out \in SimsCall(sims) : "raised" \in DOMAIN out
  /\ pc' = "sims_value_error"
  /\ UNCHANGED <<sims, sir, obs>>

\* line 252
SimsReturn ==
  /\ pc = "sims_loop"
  /\ sims.j = sims.num_simulations
  /\ pc' = "sims_done"
  /\ UNCHANGED <<sims, sir, obs>>

InitBatch ==
  /\ pc = "sims_gen"
  /\ \E g \in BetaGenerators, num_simulations \in 1..MaxSimulations,
        num_epidemics \in 1..MaxEpidemics, gamma \in Gammas,
        pop_size \in BatchPopSizes, frac \in EstimatesOfTotal :
       sims = SimsEntry(g[1], g[2], num_simulations, num_epidemics, gamma,
                        pop_size, frac)
  /\ sir = NoFrame
  /\ obs = NoFrame

NextBatch ==
  \/ SimsGenerateBetas
  \/ SimsDrawPercent
  \/ SimsMetaData
  \/ SimsMetaDataRaise
  \/ SimsMetaDone
  \/ SimsTrajectory
  \/ SimsTrajectoryRaise
  \/ SimsReturn

SpecBatch == InitBatch /\ [][NextBatch]_vars

(***************************************************************************)
(* Claims about generate_SIR_simulations.                                  *)
(***************************************************************************)
Trajectories ==
  {sims.list_of_disease_trajectory[p] :
     p \in 1..Len(sims.list_of_disease_trajectory)}

InSimsLoop == pc \in {"sims_loop", "sims_value_error", "sims_done"}

\* C4: every trajectory of the batch has total_infections equal to the sum
\* of its ground-truth series, and total_infections >= 10.
C4_TotalAtLeastTen ==
  \A dt \in Trajectories :
    /\ dt.total_infections = Sum(dt.ground_truth_infections_over_time)
    /\ dt.total_infections >= MinTotal

\* C8: the batch returns exactly num_simulations * num_epidemics
\* trajectories; the one at position p has unique_id p, simulation_number
\* p div num_epidemics and epidemic_number p mod num_epidemics, and all along
\* the loop unique_id is the number of trajectories appended so far.
C8_SequentialIds ==
  /\ \A p \in 1..Len(sims.list_of_disease_trajectory) :
       LET dt == sims.list_of_disease_trajectory[p]
       IN /\ dt.unique_id = p - 1
          /\ dt.simulation_number = (p - 1) \div sims.num_epidemics
          /\ dt.epidemic_number = (p - 1) % sims.num_epidemics
  /\ InSimsLoop => sims.unique_id = Len(sims.list_of_disease_trajectory)
  /\ pc = "sims_done" =>
       Len(sims.list_of_disease_trajectory) =
         sims.num_simulations * sims.num_epidemics

\* a batch of two replicates of two epidemics has returned
C8_Witness ==
  /\ pc = "sims_done"
  /\ sims.num_simulations = 2
  /\ sims.num_epidemics = 2
  /\ Len(sims.list_of_disease_trajectory) = 4

\* C9: the beta generator is called once and all the metadata is built
\* before the first call of the simulator; after that beta, v, alpha,
\* percent_infected and the metadata list never change, so trajectories with
\* the same epidemic_number carry the same metadata, v and alpha (those of
\* their slot), and metadata.epidemic_id is the epidemic_number.
C9_MetadataFixed ==
  /\ [][pc # "sims_gen" =>
          /\ pc' # "sims_gen"
          /\ sims'.beta = sims.beta
          /\ sims'.v = sims.v
          /\ sims'.alpha = sims.alpha]_vars
  /\ [][pc \notin {"sims_gen", "sims_percent"} =>
          sims'.percent_infected = sims.percent_infected]_vars
  /\ [][InSimsLoop =>
          sims'.list_of_meta_data = sims.list_of_meta_data]_vars
  /\ [](InSimsLoop => Len(sims.list_of_meta_data) = sims.num_epidemics)
  /\ [](~InSimsLoop => sims.list_of_disease_trajectory = <<>>)
  /\ [](\A a \in Trajectories :
          /\ a.metadata = sims.list_of_meta_data[a.epidemic_number + 1]
          /\ a.metadata.epidemic_id = a.epidemic_number
          /\ a.v = Column(sims.v, a.epidemic_number)
          /\ a.alpha = sims.alpha
          /\ \A b \in Trajectories :
               a.epidemic_number = b.epidemic_number =>
                 a.metadata = b.metadata /\ a.v = b.v /\ a.alpha = b.alpha)

\* two replicates of two epidemics with different covariates have been
\* simulated
C9_Witness ==
  /\ pc = "sims_done"
  /\ sims.num_simulations = 2
  /\ sims.num_epidemics = 2
  /\ Column(sims.v, 0) # Column(sims.v, 1)
  /\ sims.list_of_meta_data[1] # sims.list_of_meta_data[2]

PreviousDays(series, cumulative, t) ==
  /\ Len(cumulative) = Len(series)
  /\ Len(t) = Len(series)
  /\ \A i \in 1..Len(series) :
       /\ cumulative[i] = Sum(SubSeq(series, 1, i - 1))
       /\ t[i] = i - 1

SimsGenerated == "beta" \in DOMAIN sims

\* the num_epidemics the generator was called with
GenNumEpidemics == sims.beta_gen_parameters[1]

C13_OneSlotPerEpidemic ==
  /\ SimsGenerated =>
       /\ Len(sims.beta) = sims.num_epidemics
       /\ sims.v.shape[2] = sims.num_epidemics
  /\ pc # "sims_index_error"

(***************************************************************************)
(* Claims about the curve generate_ground_truth_SIR_curve returns.         *)
(***************************************************************************)
\* s[-1]
Last(s) == s[Len(s)]

\* C14: every returned curve has length >= 2, first element 1 and last
\* element 0, the iteration that empties the infected pool having no new
\* infection and recovering everybody infected; a curve with a total of at
\* least 10 has length >= 3.
C14_CurveShape ==
  /\ [](pc = "sir_done" =>
         /\ Len(sir.list_of_new_infections) >= 2
         /\ sir.list_of_new_infections[1] = 1
         /\ Last(sir.list_of_new_infections) = 0
         /\ (Sum(sir.list_of_new_infections) >= MinTotal =>
               Len(sir.list_of_new_infections) >= 3))
  /\ [][pc = "sir_loop" /\ sir.num_infected > 0 /\ sir'.num_infected = 0 =>
          /\ Last(sir'.list_of_new_infections) = 0
          /\ sir'.num_recovered - sir.num_recovered = sir.num_infected]_vars

\* a curve with a total of 10 has been returned after an iteration that
\* infected people and one that emptied the pool
C14_Witness ==
  /\ pc = "sir_done"
  /\ Sum(sir.list_of_new_infections) >= MinTotal
  /\ Len(sir.list_of_new_infections) = 3
  /\ sir.list_of_new_infections[2] > 0

(***************************************************************************)
(* Either function entered directly: the simulator step by step, or the    *)
(* rejection loop with the simulator as one call.                          *)
(***************************************************************************)
InitEntry == InitSIR \/ InitObserved

NextEntry == NextSIR \/ NextObserved

SpecEntry == InitEntry /\ [][NextEntry]_vars

InObs == pc \in {"obs_loop", "obs_done", "obs_raised"}

\* C15: in the simulator the counters are never negative, num_susceptible
\* never increases, and the sum of the recorded curve is num_infected +
\* num_recovered = pop_size - num_susceptible, so the returned total is
\* between 1 and pop_size and is the final num_recovered; hence with
\* pop_size < 10 the rejection loop never meets the threshold and leaves only
\* after all 5000 attempts.
C15_TotalWithinPopulation ==
  /\ [](InSir =>
         /\ sir.num_susceptible >= 0
         /\ sir.num_infected >= 0
         /\ sir.num_recovered >= 0
         /\ Sum(sir.list_of_new_infections) =
              sir.num_infected + sir.num_recovered
         /\ sir.num_infected + sir.num_recovered =
              sir.pop_size - sir.num_susceptible)
  /\ [][InSir => sir'.num_susceptible <= sir.num_susceptible]_vars
  /\ [](pc = "sir_done" =>
         /\ 1 <= Sum(sir.list_of_new_infections)
         /\ Sum(sir.list_of_new_infections) <= sir.pop_size
         /\ Sum(sir.list_of_new_infections) = sir.num_recovered)
  /\ [](InObs /\ obs.pop_size < MinTotal =>
         /\ obs.total_infections < MinTotal
         /\ (ObsExited => obs.count = MaxAttempts))

\* with a population of 2 the loop has left after 5000 attempts, the last
\* of them a curve in which both people were infected
C15_Witness ==
  /\ ObsExited
  /\ obs.pop_size < MinTotal
  /\ obs.count = MaxAttempts
  /\ obs.total_infections = obs.pop_size

====
